---- MODULE Spec2Model ----
(***************************************************************************)
(* Used Cars Insights (src/app.py): a Streamlit script that loads a CSV of *)
(* vehicle listings, builds filter widgets from the data, filters the      *)
(* table, renders metrics and charts and offers the filtered rows as CSV.  *)
(*                                                                         *)
(* Text is modelled as sequences of one-character strings so that the      *)
(* conversions of the script (header normalisation, numeric coercion, CSV  *)
(* writing and parsing) are computed character by character.               *)
(*                                                                         *)
(* Numbers: every price, odometer and slider value is held in hundredths   *)
(* (x * Scale) where a quantile is involved, so that the 0.99 quantile of  *)
(* integer data, a multiple of 1/100, is exact.                            *)
(***************************************************************************)
EXTENDS Integers, Sequences, FiniteSets, TLC

\* ------------------------------------------------------------------ bounds

\* Data rows per CSV file.
MaxRows == 2
\* Slider stops reachable from the lower end of a slider, beside its two ends.
MaxSteps == 1
\* Widgets moved off the value they start with, at a time.
MaxTouched == 1

\* ------------------------------------------------------------ sequences

Range(s) == {s[i] : i \in 1..Len(s)}

RECURSIVE Concat(_)
Concat(ss) == IF ss = <<>> THEN <<>> ELSE Head(ss) \o Concat(Tail(ss))

\* F(v), with v evaluated once however often F uses it.
Bind(v, F(_)) == CHOOSE y \in {F(x) : x \in {v}} : TRUE

\* The sequences over S of length lo..hi.
SeqsOf(S, lo, hi) == UNION {[1..n -> S] : n \in lo..hi}

\* ------------------------------------------------------------------ text

Digits == <<"0", "1", "2", "3", "4", "5", "6", "7", "8", "9">>
Upper == <<"A", "B", "C", "D", "E", "F", "G", "H", "I", "J", "K", "L", "M",
           "N", "O", "P", "Q", "R", "S", "T", "U", "V", "W", "X", "Y", "Z">>
Lower == <<"a", "b", "c", "d", "e", "f", "g", "h", "i", "j", "k", "l", "m",
           "n", "o", "p", "q", "r", "s", "t", "u", "v", "w", "x", "y", "z">>

IsDigit(c) == c \in Range(Digits)
DigitVal(c) == (CHOOSE i \in 1..10 : Digits[i] = c) - 1

\* str.lower() on one character.
LowerChar(c) ==
  IF c \in Range(Upper) THEN Lower[CHOOSE i \in 1..26 : Upper[i] = c] ELSE c

\* str.strip(): leading and trailing blanks removed.
RECURSIVE LStrip(_)
LStrip(s) == IF s # <<>> /\ Head(s) = " " THEN LStrip(Tail(s)) ELSE s

RECURSIVE RStrip(_)
RStrip(s) ==
  IF s # <<>> /\ s[Len(s)] = " " THEN RStrip(SubSeq(s, 1, Len(s) - 1)) ELSE s

Strip(s) == RStrip(LStrip(s))

\* c.strip().replace(" ", "_"): the normalisation without .lower().
NormalizeNameNoLower(c) ==
  [i \in 1..Len(Strip(c)) |-> IF Strip(c)[i] = " " THEN "_" ELSE Strip(c)[i]]

\* Header normalisation: c.strip().lower().replace(" ", "_").
NormalizeName(c) ==
  LET l == [i \in 1..Len(Strip(c)) |-> LowerChar(Strip(c)[i])]
  IN  [i \in 1..Len(l) |-> IF l[i] = " " THEN "_" ELSE l[i]]

\* ---------------------------------------------------------------- numbers

IsIntText(s) == s # <<>> /\ \A i \in 1..Len(s) : IsDigit(s[i])

\* digits "." zeros: a float that holds an integer, as "2015.0".
IsFloatText(s) ==
  \E d \in 2..(Len(s) - 1) :
    /\ s[d] = "."
    /\ IsIntText(SubSeq(s, 1, d - 1))
    /\ \A i \in (d + 1)..Len(s) : s[i] = "0"

IsNumText(s) == IsIntText(s) \/ IsFloatText(s)

RECURSIVE ParseInt(_)
ParseInt(s) ==
  IF s = <<>> THEN 0
  ELSE 10 * ParseInt(SubSeq(s, 1, Len(s) - 1)) + DigitVal(s[Len(s)])

\* The value of a numeric field (IsNumText).
ParseNum(s) ==
  IF IsIntText(s) THEN ParseInt(s)
  ELSE ParseInt(SubSeq(s, 1, (CHOOSE d \in 1..Len(s) : s[d] = ".") - 1))

RECURSIVE FormatInt(_)
FormatInt(n) ==
  IF n < 10 THEN <<Digits[n + 1]>>
  ELSE FormatInt(n \div 10) \o <<Digits[(n % 10) + 1]>>

\* repr of a float64 that holds an integer.
FormatFloat(n) == FormatInt(n) \o <<".", "0">>

\* ---------------------------------------------------------- column names

PRICE == <<"p", "r", "i", "c", "e">>
ODOMETER == <<"o", "d", "o", "m", "e", "t", "e", "r">>
MODEL_YEAR == <<"m", "o", "d", "e", "l", "_", "y", "e", "a", "r">>
MANUFACTURER == <<"m", "a", "n", "u", "f", "a", "c", "t", "u", "r", "e", "r">>
TYPE == <<"t", "y", "p", "e">>
MODEL == <<"m", "o", "d", "e", "l">>

\* ------------------------------------------------------------------ cells

\* A cell of a frame: a number, a text, or missing (NaN).
Num(n) == [k |-> "num", n |-> n, s |-> <<>>]
Str(s) == [k |-> "str", n |-> 0, s |-> s]
NaN == [k |-> "nan", n |-> 0, s |-> <<>>]

\* A frame: column names, a dtype per column, and rows of cells.
EmptyFrame == [cols |-> <<>>, dtypes |-> <<>>, rows |-> <<>>]

HasCol(f, name) == \E j \in 1..Len(f.cols) : f.cols[j] = name
ColIndex(f, name) == CHOOSE j \in 1..Len(f.cols) : f.cols[j] = name
ColumnAt(f, j) == [i \in 1..Len(f.rows) |-> f.rows[i][j]]
Column(f, name) == Bind(ColIndex(f, name), LAMBDA j : ColumnAt(f, j))

\* --------------------------------------------------------- pandas.read_csv

\* Fields read_csv takes for a missing value.
NaTexts == {<<>>, <<"N", "A">>, <<"n", "a", "n">>}
IsNA(s) == s \in NaTexts

\* The dtype read_csv infers for a column from its fields.
InferDtype(fields) ==
  IF fields = <<>> THEN "object"
  ELSE IF \A i \in 1..Len(fields) : IsIntText(fields[i]) THEN "int64"
  ELSE IF \A i \in 1..Len(fields) : IsNA(fields[i]) \/ IsNumText(fields[i])
       THEN "float64"
  ELSE "object"

ParseCell(dtype, field) ==
  IF IsNA(field) THEN NaN
  ELSE IF dtype = "object" THEN Str(field)
  ELSE Num(ParseNum(field))

\* read_csv on a tokenised file: the header's names as they stand, each column
\* typed by its fields.
ReadCsvTyped(header, rows, dt) ==
  [cols   |-> header,
   dtypes |-> dt,
   rows   |-> [i \in 1..Len(rows) |->
                 [j \in 1..Len(header) |-> ParseCell(dt[j], rows[i][j])]]]

ReadCsv(header, rows) ==
  Bind([j \in 1..Len(header) |-> InferDtype([i \in 1..Len(rows) |-> rows[i][j]])],
       LAMBDA dt : ReadCsvTyped(header, rows, dt))

\* ------------------------------------------------------------- load_data

\* pd.to_numeric(errors="coerce") on one cell: a text that is no number
\* becomes missing.
ToNumericCell(c) ==
  IF c.k = "str" THEN (IF IsNumText(c.s) THEN Num(ParseNum(c.s)) ELSE NaN)
  ELSE c

\* The dtype of a coerced column: an object column held a text that was no
\* number (else read_csv had typed it), so it comes out with a NaN, as float64.
ToNumericDtype(dtype) == IF dtype = "object" THEN "float64" ELSE dtype

\* for col in ["price", "odometer", "model_year"]
NumericCols == {PRICE, ODOMETER, MODEL_YEAR}

CoerceNumeric(f) ==
  [cols   |-> f.cols,
   dtypes |-> [j \in 1..Len(f.cols) |->
                 IF f.cols[j] \in NumericCols THEN ToNumericDtype(f.dtypes[j])
                 ELSE f.dtypes[j]],
   rows   |-> [i \in 1..Len(f.rows) |->
                 [j \in 1..Len(f.cols) |->
                    IF f.cols[j] \in NumericCols THEN ToNumericCell(f.rows[i][j])
                    ELSE f.rows[i][j]]]]

\* DataFrame.drop_duplicates(): the first of each group of equal rows is kept.
RECURSIVE KeepFirst(_, _)
KeepFirst(rows, seen) ==
  IF rows = <<>> THEN <<>>
  ELSE IF Head(rows) \in seen THEN KeepFirst(Tail(rows), seen)
  ELSE <<Head(rows)>> \o KeepFirst(Tail(rows), seen \cup {Head(rows)})

DropDuplicates(f) == [f EXCEPT !.rows = KeepFirst(f.rows, {})]

RenameColumns(f) ==
  [f EXCEPT !.cols = [j \in 1..Len(f.cols) |-> NormalizeName(f.cols[j])]]

\* load_data(file): parse, normalise the header, coerce, drop duplicates.
load_data(file) ==
  Bind(ReadCsv(file.header, file.rows), LAMBDA f0 :
    Bind(RenameColumns(f0), LAMBDA f1 :
      Bind(CoerceNumeric(f1), LAMBDA f2 : DropDuplicates(f2))))

\* ------------------------------------------------------- widget parameters

\* quantile(0.99), as QuantileNum / QuantileDen.
QuantileNum == 99
QuantileDen == 100
\* Prices, odometers and their slider values are held times Scale.
Scale == QuantileDen
\* step=1000.0 of the price and odometer sliders.
SliderStep == 1000
\* The year slider without a model_year value: (2000, 2024).
DefaultYearMin == 2000
DefaultYearMax == 2024
\* default=manufacturers[:5]
DefaultManuCount == 5

\* The numbers of a column, missing values skipped (min, quantile, dropna).
NumbersOf(c) == [i \in 1..Len(c) |-> c[i].n]

Vals(f, name) ==
  Bind(SelectSeq(Column(f, name), LAMBDA x : x.k = "num"), NumbersOf)

MinOf(vals) == CHOOSE v \in Range(vals) : \A u \in Range(vals) : v <= u
MaxOf(vals) == CHOOSE v \in Range(vals) : \A u \in Range(vals) : v >= u

\* The k-th smallest of vals, k from 0.
Kth(vals, k) ==
  CHOOSE v \in Range(vals) :
    /\ Cardinality({i \in 1..Len(vals) : vals[i] < v}) <= k
    /\ k < Cardinality({i \in 1..Len(vals) : vals[i] <= v})

\* Series.quantile(0.99) times Scale: linear interpolation between the two
\* order statistics around position 0.99 * (n - 1).
Interpolate(lo, hi, fr) == QuantileDen * lo + fr * (hi - lo)

Quantile99(vals) ==
  Bind(QuantileNum * (Len(vals) - 1), LAMBDA pos :
    Bind(pos \div QuantileDen, LAMBDA i :
      Interpolate(Kth(vals, i),
                  Kth(vals, IF i + 1 < Len(vals) THEN i + 1 ELSE i),
                  pos % QuantileDen)))

\* Series.clip(upper=q).max(), times Scale: the largest value, cut at q.
ClipMax(q, m) == IF m > q THEN q ELSE m

ClippedMax(vals) == ClipMax(Quantile99(vals), Scale * MaxOf(vals))

\* Text order (sorted()): by character rank, a prefix first.
Alphabet == <<" ", ",", "-", ".">> \o Digits \o Upper \o <<"_">> \o Lower
Rank(c) == CHOOSE i \in 1..Len(Alphabet) : Alphabet[i] = c

RECURSIVE TextLess(_, _)
TextLess(a, b) ==
  IF b = <<>> THEN FALSE
  ELSE IF a = <<>> THEN TRUE
  ELSE IF Head(a) = Head(b) THEN TextLess(Tail(a), Tail(b))
  ELSE Rank(Head(a)) < Rank(Head(b))

\* sorted(... .dropna().unique()): the distinct values that are not missing;
\* none when the column is absent (data.get(..., pd.Series())).
Options(f, name) ==
  IF HasCol(f, name) THEN {c \in Range(Column(f, name)) : c.k # "nan"} ELSE {}

\* options[:n] of the sorted options.
FirstN(opts, n) ==
  {c \in opts : Cardinality({d \in opts : TextLess(d.s, c.s)}) < n}

\* Lines 49-60: the bounds of the sliders and the options of the selections.
\* A bound of a slider the run never reaches (its column is absent and the
\* run has raised before) is held as 0.
SliderParamsOf(f, prices, odos, years) ==
  [min_price     |-> IF prices # <<>> THEN Scale * MinOf(prices) ELSE 0,
   max_price     |-> IF prices # <<>> THEN ClippedMax(prices) ELSE 0,
   min_odo       |-> IF odos # <<>> THEN Scale * MinOf(odos) ELSE 0,
   max_odo       |-> IF odos # <<>> THEN ClippedMax(odos) ELSE 0,
   year_min      |-> IF years # <<>> THEN MinOf(years) ELSE DefaultYearMin,
   year_max      |-> IF years # <<>> THEN MaxOf(years) ELSE DefaultYearMax,
   manufacturers |-> Options(f, MANUFACTURER),
   types         |-> Options(f, TYPE)]

SliderParams(f) ==
  Bind(IF HasCol(f, PRICE) THEN Vals(f, PRICE) ELSE <<>>, LAMBDA prices :
    Bind(IF HasCol(f, PRICE) /\ HasCol(f, ODOMETER) THEN Vals(f, ODOMETER) ELSE <<>>,
         LAMBDA odos :
      Bind(IF HasCol(f, MODEL_YEAR) THEN Vals(f, MODEL_YEAR) ELSE <<>>, LAMBDA years :
        SliderParamsOf(f, prices, odos, years))))

\* The value each widget starts with.
Defaults(p) ==
  [price_range |-> <<p.min_price, p.max_price>>,
   odo_range   |-> <<p.min_odo, p.max_odo>>,
   year_range  |-> <<p.year_min, p.year_max>>,
   manu_sel    |-> FirstN(p.manufacturers, DefaultManuCount),
   type_sel    |-> p.types,
   log_price   |-> FALSE]

\* The values a slider can be dragged to: its ends, and the steps from its
\* lower end, MaxSteps of them.
Stops(lo, hi, step) ==
  {v \in {lo + k * step : k \in 0..MaxSteps} : v <= hi} \cup {hi}

Ranges(lo, hi, step) ==
  {<<a, b>> : a \in Stops(lo, hi, step), b \in Stops(lo, hi, step)}
    \cap {r \in Stops(lo, hi, step) \X Stops(lo, hi, step) : r[1] <= r[2]}

\* ------------------------------------------------------------- filtering

\* A range test with the upper end open.
BetweenLowerOnly(c, lo, hi, scale) == c.k = "num" /\ lo <= scale * c.n

\* A range test that lets a missing value through.
BetweenNaNPasses(c, lo, hi, scale) ==
  c.k = "nan" \/ (lo <= scale * c.n /\ scale * c.n <= hi)

\* Series.between(lo, hi, inclusive="both") on one cell whose number is held
\* times 1 and compared times scale: a missing value is in no range.
Between(c, lo, hi, scale) ==
  c.k = "num" /\ lo <= scale * c.n /\ scale * c.n <= hi

\* df[mask]: the rows the mask keeps, in order, columns and dtypes as they were.
Mask(f, keep(_)) == [f EXCEPT !.rows = SelectSeq(f.rows, keep)]

\* df[df[name].isin(sel)]
Isin(f, name, sel) ==
  Bind(ColIndex(f, name), LAMBDA j : Mask(f, LAMBDA r : r[j] \in sel))

\* df[df[name].between(lo, hi, inclusive="both")], the numbers compared times scale
BetweenRows(f, name, lo, hi, scale) ==
  Bind(ColIndex(f, name), LAMBDA j : Mask(f, LAMBDA r : Between(r[j], lo, hi, scale)))

\* Line 70 guarded by the column, not by the selection: an empty selection
\* keeps no row.
FilterManufacturerAlways(f, sel) ==
  IF HasCol(f, MANUFACTURER) THEN Isin(f, MANUFACTURER, sel) ELSE f

\* Lines 69-70.
FilterManufacturer(f, sel) == IF sel # {} THEN Isin(f, MANUFACTURER, sel) ELSE f

\* Lines 71-72.
FilterType(f, sel) == IF sel # {} THEN Isin(f, TYPE, sel) ELSE f

\* Lines 73-74: both masks are built on df, then and-ed.
FilterPriceOdometer(f, pr, od) ==
  Bind(BetweenRows(f, PRICE, pr[1], pr[2], Scale), LAMBDA g :
    BetweenRows(g, ODOMETER, od[1], od[2], Scale))

\* Lines 75-76.
FilterYear(f, yr) ==
  IF HasCol(f, MODEL_YEAR) THEN BetweenRows(f, MODEL_YEAR, yr[1], yr[2], 1) ELSE f

\* Lines 68-76: df = data.copy(), then one filter after the other.
ApplyFilters(frame, wv) ==
  Bind(FilterManufacturer(frame, wv.manu_sel), LAMBDA d1 :
    Bind(FilterType(d1, wv.type_sel), LAMBDA d2 :
      Bind(FilterPriceOdometer(d2, wv.price_range, wv.odo_range), LAMBDA d3 :
        FilterYear(d3, wv.year_range))))

\* ---------------------------------------------------------------- export

Quote == "\""

NeedsQuoting(s) == \E i \in 1..Len(s) : s[i] \in {",", Quote}

\* A field as csv.writer puts it (QUOTE_MINIMAL): quoted, its quotes doubled,
\* when it holds a comma or a quote.
WriteField(s) ==
  IF NeedsQuoting(s)
  THEN <<Quote>>
       \o Concat([i \in 1..Len(s) |-> IF s[i] = Quote THEN <<Quote, Quote>> ELSE <<s[i]>>])
       \o <<Quote>>
  ELSE s

WriteLine(fields) ==
  Concat([j \in 1..Len(fields) |->
            IF j = 1 THEN WriteField(fields[j]) ELSE <<",">> \o WriteField(fields[j])])

\* A cell as to_csv writes it: a missing value as nothing, an int64 in digits,
\* a float64 by its repr, a text as it stands.
FormatCell(dtype, c) ==
  IF c.k = "nan" THEN <<>>
  ELSE IF c.k = "str" THEN c.s
  ELSE IF dtype = "int64" THEN FormatInt(c.n)
  ELSE FormatFloat(c.n)

\* df.to_csv() with the index written (the default): an unnamed first column
\* that holds the row labels.
to_csv_with_index(f) ==
  <<WriteLine(<<<<>>>> \o f.cols)>>
    \o [i \in 1..Len(f.rows) |->
          WriteLine(<<FormatInt(i - 1)>>
                    \o [j \in 1..Len(f.cols) |-> FormatCell(f.dtypes[j], f.rows[i][j])])]

\* df.to_csv(index=False): the header line, then one line per row.
to_csv(f) ==
  <<WriteLine(f.cols)>>
    \o [i \in 1..Len(f.rows) |->
          WriteLine([j \in 1..Len(f.cols) |-> FormatCell(f.dtypes[j], f.rows[i][j])])]

\* The fields of one line of CSV text: split at the commas outside quotes,
\* the quotes removed, a doubled quote inside quotes read as one.
RECURSIVE SplitFrom(_, _, _, _)
SplitFrom(line, i, cur, inq) ==
  IF i > Len(line) THEN <<cur>>
  ELSE IF inq
       THEN IF line[i] = Quote
            THEN IF i < Len(line) /\ line[i + 1] = Quote
                 THEN SplitFrom(line, i + 2, Append(cur, Quote), TRUE)
                 ELSE SplitFrom(line, i + 1, cur, FALSE)
            ELSE SplitFrom(line, i + 1, Append(cur, line[i]), TRUE)
       ELSE IF line[i] = "," THEN <<cur>> \o SplitFrom(line, i + 1, <<>>, FALSE)
            ELSE IF line[i] = Quote THEN SplitFrom(line, i + 1, cur, TRUE)
            ELSE SplitFrom(line, i + 1, Append(cur, line[i]), FALSE)

SplitLine(line) == SplitFrom(line, 1, <<>>, FALSE)

\* pd.read_csv on CSV text: the first line is the header.
ReadCsvText(lines) ==
  ReadCsv(SplitLine(lines[1]), [i \in 1..(Len(lines) - 1) |-> SplitLine(lines[i + 1])])

\* ----------------------------------------------------------------- files

\* A CSV file, tokenised: its header's names and its rows' fields. NoFile is
\* the absence of one (no upload; no vehicles_us.csv on disk).
NoFile == [exists |-> FALSE, header |-> <<>>, rows |-> <<>>]

\* The listings the files are made of, each as the fields
\* manufacturer, type, price, odometer, model_year, model.
RowKinds ==
  << \* a full listing
     <<<<"f", "o", "r", "d">>,
     <<"s", "e", "d", "a", "n">>,
     <<"5", "0", "0", "0">>,
     <<"3", "0", "0", "0", "0">>,
     <<"2", "0", "1", "5">>,
     <<"r", "x", ",", "7">>>>,
     \* a full listing, its model a text of digits
     <<<<"t", "o", "y", "o", "t", "a">>,
     <<"s", "u", "v">>,
     <<"2", "0", "0", "0", "0">>,
     <<"1", "0", "0", "0", "0">>,
     <<"2", "0", "2", "0">>,
     <<"1", "5", "0">>>>,
     \* manufacturer and type missing
     <<<<>>,
     <<>>,
     <<"6", "0", "0", "0">>,
     <<"1", "1", "0", "0", "0">>,
     <<"2", "0", "1", "6">>,
     <<"r", "x", ",", "7">>>>,
     \* a price that is no number
     <<<<"f", "o", "r", "d">>,
     <<"s", "e", "d", "a", "n">>,
     <<"a", "s", "k">>,
     <<"1", "1", "0", "0", "0">>,
     <<"2", "0", "1", "6">>,
     <<"1", "5", "0">>>>,
     \* odometer missing
     <<<<"t", "o", "y", "o", "t", "a">>,
     <<"s", "e", "d", "a", "n">>,
     <<"2", "0", "0", "0", "0">>,
     <<>>,
     <<"2", "0", "1", "5", ".", "0">>,
     <<"r", "x", ",", "7">>>>,
     \* model_year missing
     <<<<"f", "o", "r", "d">>,
     <<"s", "u", "v">>,
     <<"5", "0", "0", "0">>,
     <<"1", "0", "0", "0", "0">>,
     <<"N", "A">>,
     <<"1", "5", "0">>>> >>

\* The headers: the names as the file spells them, and which field of a
\* listing each column holds.
HeaderFull ==
  [names |-> <<<<"M", "a", "n", "u", "f", "a", "c", "t", "u", "r", "e", "r">>,
               <<"t", "y", "p", "e">>,
               <<" ", "P", "r", "i", "c", "e">>,
               <<"o", "d", "o", "m", "e", "t", "e", "r">>,
               <<"M", "o", "d", "e", "l", " ", "Y", "e", "a", "r">>,
               <<"m", "o", "d", "e", "l", " ">>>>,
   idx   |-> <<1, 2, 3, 4, 5, 6>>]
HeaderExample ==
  [names |-> <<<<"m", "a", "n", "u", "f", "a", "c", "t", "u", "r", "e", "r">>,
               <<"p", "r", "i", "c", "e">>,
               <<"o", "d", "o", "m", "e", "t", "e", "r">>,
               <<"m", "o", "d", "e", "l", "_", "y", "e", "a", "r">>>>,
   idx   |-> <<1, 3, 4, 5>>]
HeaderNoOdometer ==
  [names |-> <<<<"m", "a", "n", "u", "f", "a", "c", "t", "u", "r", "e", "r">>,
               <<"p", "r", "i", "c", "e">>,
               <<"m", "o", "d", "e", "l", "_", "y", "e", "a", "r">>>>,
   idx   |-> <<1, 3, 5>>]
HeaderNoYear ==
  [names |-> <<<<"T", "y", "p", "e">>,
               <<"P", "R", "I", "C", "E">>,
               <<"O", "d", "o", "m", "e", "t", "e", "r">>>>,
   idx   |-> <<2, 3, 4>>]

Headers == {HeaderFull, HeaderExample, HeaderNoOdometer, HeaderNoYear}

File(h, kinds) ==
  [exists |-> TRUE,
   header |-> h.names,
   rows   |-> [i \in 1..Len(kinds) |->
                 [j \in 1..Len(h.idx) |-> RowKinds[kinds[i]][h.idx[j]]]]]

\* The listings of a file: 1..MaxRows of them, in the order of RowKinds, or
\* one listing twice (duplicate rows).
KindSeqs ==
  {ks \in SeqsOf(1..Len(RowKinds), 1, MaxRows) :
     \A i \in 1..(Len(ks) - 1) : ks[i] < ks[i + 1]}
    \cup {<<k, k>> : k \in 1..Len(RowKinds)}

\* A file the sliders can be built from: its price and odometer columns,
\* where it has them, hold a number (min() of none is NaN, no slider bound).
\* A column with one value gives a slider whose two ends meet; it returns
\* that value as both ends of the range.
Usable(file) ==
  LET f == load_data(file)
  IN  /\ HasCol(f, PRICE) => Vals(f, PRICE) # <<>>
      /\ HasCol(f, ODOMETER) => Vals(f, ODOMETER) # <<>>

Files == {f \in {File(h, ks) : h \in Headers, ks \in KindSeqs} : Usable(f)}

\* The CSV the user has at hand to upload.
UploadFiles == {File(HeaderExample, <<3, 3>>)}

\* ----------------------------------------------------------------- state

VARIABLES
  disk,      \* vehicles_us.csv as it is on disk, or NoFile
  uploaded,  \* what st.sidebar.file_uploader returns: a file, or NoFile
  cache,     \* the st.cache_data store of load_data: frame by argument
  first,     \* for each argument, the frame its first load returned
  ran,       \* the script has run in this session
  params,    \* the slider bounds and options the last run derived from `data`
  w,         \* what the widgets returned in the last run (the filter state)
  data,      \* the script's `data` at the end of the last run
  df,        \* the script's `df` at the end of the last run (the filtered view)
  rendered,  \* the elements the last run emitted, in order
  exc,       \* the exception that escaped the last run, or "none"
  halted,    \* the last run ended in st.stop()
  csv        \* the text handed to st.download_button, by line

vars == <<disk, uploaded, cache, first, ran, params, w, data, df, rendered, exc, halted, csv>>

\* --------------------------------------------------------------- loading

\* What st.cache_data keys a call of load_data by: the argument, which is the
\* uploaded file, or nothing (the default path, a constant string).
SourceKey(up) ==
  IF up.exists THEN [src |-> "upload", file |-> up]
  ELSE [src |-> "default", file |-> NoFile]

\* @st.cache_data: the stored result for an argument seen before, else the
\* function is run and its result stored.
CachedLoad(cch, key, file) ==
  IF key \in DOMAIN cch THEN cch[key] ELSE load_data(file)

CacheStore(cch, key, frame) ==
  IF key \in DOMAIN cch THEN cch ELSE (key :> frame) @@ cch

\* ------------------------------------------------------------- rendering

NoWidgets ==
  [price_range |-> <<0, 0>>, odo_range |-> <<0, 0>>, year_range |-> <<0, 0>>,
   manu_sel |-> {}, type_sel |-> {}, log_price |-> FALSE]

Sidebar == <<"sidebar.header", "file_uploader">>

FilterWidgets ==
  <<"slider:price", "slider:odometer", "slider:year",
    "multiselect:manufacturer", "multiselect:type", "checkbox:log">>

\* The handler without st.stop(): the script goes on to line 49, where `data`
\* is unbound.
OnFileNotFoundNoStop(pre) ==
  [rendered |-> pre \o <<"error">>, exc |-> "NameError", halted |-> FALSE]

\* except FileNotFoundError: st.error(...); st.stop()
OnFileNotFound(pre) ==
  [rendered |-> pre \o <<"error">>, exc |-> "none", halted |-> TRUE]

\* Lines 81-140: header, metrics, the three tabs, preview and download.
Page(f, log) ==
  <<"title", "caption",
    "metric:count",
    IF HasCol(f, PRICE) THEN "metric:price_mean" ELSE "metric:price_mean:N/A",
    IF HasCol(f, PRICE) THEN "metric:price_median" ELSE "metric:price_median:N/A",
    IF HasCol(f, ODOMETER) THEN "metric:odometer_mean" ELSE "metric:odometer_mean:N/A",
    "tabs",
    IF HasCol(f, ODOMETER) /\ HasCol(f, PRICE)
    THEN (IF log THEN "chart:scatter:log" ELSE "chart:scatter")
    ELSE "info:scatter",
    IF HasCol(f, PRICE) /\ HasCol(f, MANUFACTURER)
    THEN (IF log THEN "chart:box:log" ELSE "chart:box")
    ELSE "info:box",
    IF HasCol(f, MODEL) THEN "chart:histogram" ELSE "info:histogram",
    "subheader", "dataframe", "download_button", "markdown", "caption:footer">>

\* Filters applied to `data` itself, no copy: `data` ends as the view.
DataAfterFiltersInPlace(frame, view) == view

\* Line 68, df = data.copy(): the filters work on a copy and rebind df, so
\* `data` is at the end of the run what the loader returned.
DataAfterFilters(frame, view) == frame

\* ------------------------------------------------------------ the script

\* What each widget returns in a run: the value the session holds for it when
\* the last run rendered the same widget (same bounds, same options), else
\* the value it starts with.
WidgetValuesFrom(req, oldp, old, p, d) ==
  LET had(name) == name \in Range(old)
  IN  [price_range |->
         IF had("slider:price") /\ oldp.min_price = p.min_price
                                /\ oldp.max_price = p.max_price
         THEN req.price_range ELSE d.price_range,
       odo_range |->
         IF had("slider:odometer") /\ oldp.min_odo = p.min_odo
                                   /\ oldp.max_odo = p.max_odo
         THEN req.odo_range ELSE d.odo_range,
       year_range |->
         IF had("slider:year") /\ oldp.year_min = p.year_min
                               /\ oldp.year_max = p.year_max
         THEN req.year_range ELSE d.year_range,
       manu_sel |->
         IF had("multiselect:manufacturer") /\ oldp.manufacturers = p.manufacturers
         THEN req.manu_sel ELSE d.manu_sel,
       type_sel |->
         IF had("multiselect:type") /\ oldp.types = p.types
         THEN req.type_sel ELSE d.type_sel,
       log_price |-> IF had("checkbox:log") THEN req.log_price ELSE d.log_price]

\* How many of the widgets a run rendered returned a value that is not the
\* one they start with.
Touched(wv, d, shown) ==
  Cardinality(
    {n \in Range(shown) :
       \/ n = "slider:price" /\ wv.price_range # d.price_range
       \/ n = "slider:odometer" /\ wv.odo_range # d.odo_range
       \/ n = "slider:year" /\ wv.year_range # d.year_range
       \/ n = "multiselect:manufacturer" /\ wv.manu_sel # d.manu_sel
       \/ n = "multiselect:type" /\ wv.type_sel # d.type_sel
       \/ n = "checkbox:log" /\ wv.log_price # d.log_price})

NoParams == SliderParams(EmptyFrame)

\* --------------------------------------------------------------- actions

Init ==
  /\ disk \in Files \cup {NoFile}
  /\ uploaded = NoFile
  /\ cache = <<>>
  /\ first = <<>>
  /\ ran = FALSE
  /\ params = NoParams
  /\ w = NoWidgets
  /\ data = EmptyFrame
  /\ df = EmptyFrame
  /\ rendered = <<>>
  /\ exc = "none"
  /\ halted = FALSE
  /\ csv = <<>>

\* The end of a run: what it leaves in the session and on the page.
Finish(up, cch, loaded, p, wv, d, view, page, e, h, text) ==
  /\ uploaded' = up
  /\ cache' = cch
  /\ first' = IF loaded /\ SourceKey(up) \notin DOMAIN first
              THEN (SourceKey(up) :> cch[SourceKey(up)]) @@ first ELSE first
  /\ ran' = TRUE
  /\ params' = p
  /\ w' = wv
  /\ data' = d
  /\ df' = view
  /\ rendered' = page
  /\ exc' = e
  /\ halted' = h
  /\ csv' = text
  /\ UNCHANGED disk

\* Lines 38-46 when no file is there: load_data() raises FileNotFoundError.
RunNoFile(up) ==
  \E nf \in {OnFileNotFound(Sidebar)} :
    Finish(up, cache, FALSE, NoParams, NoWidgets, EmptyFrame, EmptyFrame,
           nf.rendered, nf.exc, nf.halted, <<>>)

\* Line 52 on a frame without a price column: data["price"] raises KeyError.
RunNoPrice(up, frame) ==
  Finish(up, CacheStore(cache, SourceKey(up), frame), TRUE, NoParams, NoWidgets,
         frame, EmptyFrame, Sidebar, "KeyError", FALSE, <<>>)

\* Line 55 on a frame without an odometer column: the price slider is there,
\* data["odometer"] raises KeyError.
RunNoOdometer(up, frame, p, wv) ==
  Finish(up, CacheStore(cache, SourceKey(up), frame), TRUE, p,
         [NoWidgets EXCEPT !.price_range = wv.price_range],
         frame, EmptyFrame, Sidebar \o <<"slider:price">>, "KeyError", FALSE, <<>>)

\* Lines 68-140: the filters, the page, the download.
RunPage(up, frame, p, wv) ==
  \E view \in {ApplyFilters(frame, wv)} :
    Finish(up, CacheStore(cache, SourceKey(up), frame), TRUE, p, wv,
           DataAfterFilters(frame, view), view,
           Sidebar \o FilterWidgets \o Page(view, wv.log_price),
           "none", FALSE, to_csv(view))

\* One execution of app.py, top to bottom, with `up` in the uploader and one
\* of `reqs` as the widget values the session holds. A run the user starts by
\* moving a widget (capped) leaves at most MaxTouched widgets off the value
\* they start with.
Run(up, reqs, capped) ==
  IF ~(IF up.exists THEN up ELSE disk).exists
  THEN RunNoFile(up)
  ELSE \E frame \in {CachedLoad(cache, SourceKey(up), IF up.exists THEN up ELSE disk)} :
       \E p \in {SliderParams(frame)} :
       \E d \in {Defaults(p)} :
         IF ~HasCol(frame, PRICE) THEN RunNoPrice(up, frame)
         ELSE \E req \in reqs :
              \E wv \in {WidgetValuesFrom(req, params, rendered, p, d)} :
                IF ~HasCol(frame, ODOMETER)
                THEN /\ capped => Touched(wv, d, <<"slider:price">>) <= MaxTouched
                     /\ RunNoOdometer(up, frame, p, wv)
                ELSE /\ capped => Touched(wv, d, FilterWidgets) <= MaxTouched
                     /\ RunPage(up, frame, p, wv)

Shown(name) == ran /\ name \in Range(rendered)

\* The page is opened: the first run of the session.
Open ==
  /\ ~ran
  /\ Run(NoFile, {NoWidgets}, FALSE)

\* The user reruns the page as it is.
Rerun ==
  /\ ran
  /\ Run(uploaded, {w}, FALSE)

Upload ==
  /\ ran
  /\ \E f \in UploadFiles :
       /\ uploaded # f
       /\ Run(f, {w}, FALSE)

RemoveUpload ==
  /\ ran
  /\ uploaded.exists
  /\ Run(NoFile, {w}, FALSE)

SetPriceRange ==
  /\ Shown("slider:price")
  /\ Run(uploaded,
         {[w EXCEPT !.price_range = r] :
            r \in Ranges(params.min_price, params.max_price, SliderStep * Scale) \ {w.price_range}},
         TRUE)

SetOdoRange ==
  /\ Shown("slider:odometer")
  /\ Run(uploaded,
         {[w EXCEPT !.odo_range = r] :
            r \in Ranges(params.min_odo, params.max_odo, SliderStep * Scale) \ {w.odo_range}},
         TRUE)

SetYearRange ==
  /\ Shown("slider:year")
  /\ Run(uploaded,
         {[w EXCEPT !.year_range = r] :
            r \in Ranges(params.year_min, params.year_max, 1) \ {w.year_range}},
         TRUE)

SetManufacturers ==
  /\ Shown("multiselect:manufacturer")
  /\ Run(uploaded,
         {[w EXCEPT !.manu_sel = sel] :
            sel \in (SUBSET params.manufacturers) \ {w.manu_sel}},
         TRUE)

SetTypes ==
  /\ Shown("multiselect:type")
  /\ Run(uploaded,
         {[w EXCEPT !.type_sel = sel] :
            sel \in (SUBSET params.types) \ {w.type_sel}},
         TRUE)

ToggleLog ==
  /\ Shown("checkbox:log")
  /\ Run(uploaded, {[w EXCEPT !.log_price = ~w.log_price]}, TRUE)

Next ==
  \/ Open
  \/ Rerun
  \/ Upload
  \/ RemoveUpload
  \/ SetPriceRange
  \/ SetOdoRange
  \/ SetYearRange
  \/ SetManufacturers
  \/ SetTypes
  \/ ToggleLog

Spec == Init /\ [][Next]_vars

\* ------------------------------------------------------------ properties

\* The last run got past the sidebar: the filters ran and the page is there.
Filtered == ran /\ exc = "none" /\ ~halted

\* The last run had a file to load.
Loaded == ran /\ (uploaded.exists \/ disk.exists)

CellAt(f, i, name) == f.rows[i][ColIndex(f, name)]

\* lo <= value <= hi for the range r = (lo, hi) of a slider.
InRange(c, r, scale) ==
  c.k = "num" /\ r[1] <= scale * c.n /\ scale * c.n <= r[2]

\* The three sliders are where they start: the full range.
FullRanges ==
  /\ w.price_range = <<params.min_price, params.max_price>>
  /\ w.odo_range = <<params.min_odo, params.max_odo>>
  /\ w.year_range = <<params.year_min, params.year_max>>

\* C1: every row of the filtered view has its price within the selected price
\* range and its odometer within the selected odometer range, both ends
\* included, whatever the manufacturer, type and year selection.
ViewWithinRanges ==
  Filtered =>
    \A i \in 1..Len(df.rows) :
      /\ InRange(CellAt(df, i, PRICE), w.price_range, Scale)
      /\ InRange(CellAt(df, i, ODOMETER), w.odo_range, Scale)

\* A price range the user chose keeps a row and drops a priced row.
ViewWithinRangesSeen ==
  /\ Filtered
  /\ w.price_range # <<params.min_price, params.max_price>>
  /\ df.rows # <<>>
  /\ \E i \in 1..Len(data.rows) :
       /\ CellAt(data, i, PRICE).k = "num"
       /\ ~InRange(CellAt(data, i, PRICE), w.price_range, Scale)

\* The row of `data` passes the price, odometer and year ranges.
PassesRanges(row) ==
  /\ InRange(row[ColIndex(data, PRICE)], w.price_range, Scale)
  /\ InRange(row[ColIndex(data, ODOMETER)], w.odo_range, Scale)
  /\ HasCol(data, MODEL_YEAR) =>
       InRange(row[ColIndex(data, MODEL_YEAR)], w.year_range, 1)

\* C2: with every available manufacturer and every available type selected,
\* the filtered view has as many rows as the table filtered by the price,
\* odometer and year ranges alone, rows with a missing manufacturer or type
\* included.
AllSelectedIsRangesAlone ==
  (Filtered /\ w.manu_sel = params.manufacturers /\ w.type_sel = params.types) =>
    Len(df.rows) = Len(SelectSeq(data.rows, PassesRanges))

\* C3: a run on a CSV without an odometer column raises nothing and shows the
\* message for missing columns in the scatter tab.
NoOdometerShowsInfo ==
  (ran /\ HasCol(data, PRICE) /\ ~HasCol(data, ODOMETER)) =>
    exc = "none" /\ "info:scatter" \in Range(rendered)

\* The table of the example: the ford and the toyota listing.
ExampleCols == <<MANUFACTURER, PRICE, ODOMETER, MODEL_YEAR>>
ExampleRows ==
  <<<<Str(<<"f", "o", "r", "d">>), Num(5000), Num(30000), Num(2015)>>,
    <<Str(<<"t", "o", "y", "o", "t", "a">>), Num(20000), Num(10000), Num(2020)>>>>

\* C4: on the table of the example, manufacturer = [ford] with the three
\* sliders left where they start yields one row, its price 5000.
ExampleYieldsFord ==
  (/\ Filtered
   /\ data.cols = ExampleCols
   /\ data.rows = ExampleRows
   /\ w.manu_sel = {Str(<<"f", "o", "r", "d">>)}
   /\ FullRanges) =>
    Len(df.rows) = 1 /\ CellAt(df, 1, PRICE) = Num(5000)

\* C5: with no upload and no vehicles_us.csv, the run shows the error and
\* halts: nothing but the sidebar's header, the uploader and the error is
\* rendered, and no exception escapes.
MissingFileHalts ==
  (ran /\ ~uploaded.exists /\ ~disk.exists) =>
    /\ "error" \in Range(rendered)
    /\ Range(rendered) \subseteq {"sidebar.header", "file_uploader", "error"}
    /\ halted
    /\ exc = "none"
    /\ df = EmptyFrame

\* The page was opened without a file and without an upload.
MissingFileSeen == ran /\ ~uploaded.exists /\ ~disk.exists /\ rendered # <<>>

\* The downloaded text, parsed again, has the columns and the rows of f.
ParsesBackTo(text, f) ==
  \E back \in {ReadCsvText(text)} : back.cols = f.cols /\ back.rows = f.rows

TextStaysText(f) ==
  \A j \in 1..Len(f.cols) :
    (\E i \in 1..Len(f.rows) : f.rows[i][j].k = "str") =>
      \E i \in 1..Len(f.rows) : f.rows[i][j].k = "str" /\ ~IsNumText(f.rows[i][j].s)

Normalized(name) ==
  \A i \in 1..Len(name) : name[i] # " " /\ name[i] \notin Range(Upper)

NoDuplicateRows(f) ==
  \A i, j \in 1..Len(f.rows) : i # j => f.rows[i] # f.rows[j]

\* C7: every load of a source, parsed or from the cache, yields the column
\* names and the row count of the first load of that source; the names are
\* normalized and no row is there twice.
LoadIsIdempotent ==
  /\ \A key \in DOMAIN cache :
       /\ key \in DOMAIN first
       /\ cache[key].cols = first[key].cols
       /\ Len(cache[key].rows) = Len(first[key].rows)
  /\ Loaded =>
       /\ SourceKey(uploaded) \in DOMAIN first
       /\ data.cols = first[SourceKey(uploaded)].cols
       /\ Len(data.rows) = Len(first[SourceKey(uploaded)].rows)
       /\ Len(data.cols) = Len((IF uploaded.exists THEN uploaded ELSE disk).header)
       /\ \A j \in 1..Len(data.cols) : Normalized(data.cols[j])
       /\ NoDuplicateRows(data)

\* The default file, a row of it twice, is loaded again after an upload was
\* removed: its second load comes from the cache.
LoadIsIdempotentSeen ==
  /\ Loaded
  /\ ~uploaded.exists
  /\ Cardinality(DOMAIN cache) = 2
  /\ Len(data.rows) < Len(disk.rows)
  /\ \E j \in 1..Len(disk.header) : ~Normalized(disk.header[j])

\* The row of `data` satisfies all five predicates.
PassesAll(row) ==
  /\ row[ColIndex(data, MANUFACTURER)] \in w.manu_sel
  /\ row[ColIndex(data, TYPE)] \in w.type_sel
  /\ InRange(row[ColIndex(data, PRICE)], w.price_range, Scale)
  /\ InRange(row[ColIndex(data, ODOMETER)], w.odo_range, Scale)
  /\ InRange(row[ColIndex(data, MODEL_YEAR)], w.year_range, 1)

\* C8 as stated: on a table with the five columns the filtered view is the
\* rows that satisfy all five predicates, an empty selection included.
ViewIsConjunction ==
  (Filtered /\ \A name \in {MANUFACTURER, TYPE, MODEL_YEAR} : HasCol(data, name)) =>
    df.rows = SelectSeq(data.rows, PassesAll)

\* The row of `data` satisfies the predicates that are active: a selection
\* that is empty and a year range without a model_year column filter nothing.
PassesActive(row) ==
  /\ w.manu_sel # {} => row[ColIndex(data, MANUFACTURER)] \in w.manu_sel
  /\ w.type_sel # {} => row[ColIndex(data, TYPE)] \in w.type_sel
  /\ PassesRanges(row)

\* C8, amended: the filtered view is the rows of the table, in order, that
\* satisfy the active predicates: membership in a selection that is not
\* empty, the price and odometer ranges, and the year range when the table
\* has a model_year column.
ViewIsActiveConjunction ==
  Filtered => df.cols = data.cols /\ df.rows = SelectSeq(data.rows, PassesActive)

\* The user emptied the manufacturer selection and the view holds rows.
EmptySelectionSeen ==
  /\ Filtered
  /\ w.manu_sel = {}
  /\ params.manufacturers # {}
  /\ df.rows # <<>>

\* C9: the loaded table stays as its first load returned it, in the cache and
\* as the script's `data`, whatever the filters; the filtered view has its
\* columns and only rows of it.
LoadedTableUnchanged ==
  /\ \A key \in DOMAIN cache : key \in DOMAIN first /\ cache[key] = first[key]
  /\ Loaded => data = cache[SourceKey(uploaded)]
  /\ Filtered =>
       /\ df.cols = data.cols
       /\ \A i \in 1..Len(df.rows) : df.rows[i] \in Range(data.rows)

\* Filters the user set keep some rows of the table and drop others.
LoadedTableUnchangedSeen ==
  /\ Filtered
  /\ ~FullRanges
  /\ df.rows # <<>>
  /\ Len(df.rows) < Len(data.rows)

\* C10: on a table with the price, odometer and model_year columns, no row of
\* the filtered view has one of the three missing, in any filter state.
MissingNeverShown ==
  (Filtered /\ HasCol(data, MODEL_YEAR)) =>
    \A i \in 1..Len(df.rows) :
      \A name \in NumericCols : CellAt(df, i, name).k = "num"

\* The sliders at their full range show fewer rows than the table, which has
\* a row with a missing price.
MissingNeverShownSeen ==
  /\ Filtered
  /\ HasCol(data, MODEL_YEAR)
  /\ FullRanges
  /\ df.rows # <<>>
  /\ Len(df.rows) < Len(data.rows)
  /\ \E i \in 1..Len(data.rows) : CellAt(data, i, PRICE).k = "nan"

====
